---- MODULE Spec2Model ----
(***************************************************************************)
(* Teleop command router of jojo18020/omnia.                               *)
(*                                                                         *)
(* Two scripts share the same PubSub callback skeleton:                    *)
(*   teleop_bak.py  forwards allow-listed cmd words to an Arduino over a   *)
(*                  serial link (find_arduino_port, init_arduino,          *)
(*                  send_cmd_to_arduino, handle_teleop_message);           *)
(*   teleop_gzb.py  jogs a 7-joint target vector from key presses and      *)
(*                  publishes it (JointJogNode, handle_teleop_message).    *)
(* A run of the model is a run of one of the two scripts (variable         *)
(* script).  Joint positions are counted in units of STEP_RAD.             *)
(***************************************************************************)
EXTENDS Integers, Sequences, FiniteSets, TLC

VARIABLES
    script,        \* which script this process runs
    phase,         \* position in __main__: boot, inited, joined, subscribed
    arduino_ser,   \* teleop_bak: global serial handle, NoneV or [port |-> p]
    open_handles,  \* teleop_bak: ports that currently have an open handle
    wire,          \* teleop_bak: every line written to a serial device, in order
    ros_node,      \* teleop_gzb: global node, "None" or "node"
    q,             \* teleop_gzb: JointJogNode.q, in units of STEP_RAD
    published,     \* teleop_gzb: positions of every published trajectory point
    keys_seen,     \* teleop_gzb: the jog-table keys delivered to the node so far
    connect_calls, \* teleop_bak: number of runs of init_arduino so far
    n_candidates,  \* teleop_bak: how many candidates discovery listed
    motion_seen,   \* teleop_bak: allow-listed commands delivered so far
    nmsgs,         \* number of callbacks delivered so far
    last           \* the operation that ran last, with the state it started from

vars == <<script, phase, arduino_ser, open_handles, wire, ros_node, q,
          published, keys_seen, connect_calls, n_candidates, motion_seen,
          nmsgs, last>>

-----------------------------------------------------------------------------
(* Bounds of the model *)

\* callbacks delivered in one run of teleop_bak.py
MaxBakMsgs == 2

\* callbacks delivered in one run of teleop_gzb.py
MaxGzbMsgs == 3

-----------------------------------------------------------------------------
(* Python values *)

NoneV == [t |-> "none"]
StrV(s) == [t |-> "str", s |-> s]
NumV(n) == [t |-> "num", n |-> n]
BoolV(b) == [t |-> "bool", b |-> b]
ListV(n) == [t |-> "list", len |-> n]

\* bool(v) as Python's `not v` uses it
Truthy(v) ==
    CASE v.t = "none" -> FALSE
      [] v.t = "str"  -> Len(v.s) > 0
      [] v.t = "num"  -> v.n # 0
      [] v.t = "bool" -> v.b
      [] v.t = "list" -> v.len > 0
      [] v.t = "text" -> v.doc.j # "empty"
      [] OTHER        -> TRUE

\* Exception classes the modelled calls can raise; all derive from Exception.
ExceptionClasses == {"TypeError", "AttributeError", "JSONDecodeError",
                     "SerialException"}

\* `except Exception as e:` of handle_teleop_message
ExceptCatchesJsonOnly(exc) == exc = "JSONDecodeError"
ExceptCatches(exc) == exc \in ExceptionClasses

-----------------------------------------------------------------------------
(* Key strings: a Python str is a sequence of one-character strings *)

UpperOf == ("Q" :> "q") @@ ("A" :> "a") @@ ("X" :> "x") @@ ("Z" :> "z")

\* str.lower(), character by character
LowerChar(c) == IF c \in DOMAIN UpperOf THEN UpperOf[c] ELSE c
Lower(s) == [i \in 1..Len(s) |-> LowerChar(s[i])]

IsSpace(c) == c \in {" ", "\t", "\n"}

RECURSIVE LStrip(_)
LStrip(s) == IF s # <<>> /\ IsSpace(Head(s)) THEN LStrip(Tail(s)) ELSE s

RECURSIVE RStrip(_)
RStrip(s) ==
    IF s # <<>> /\ IsSpace(s[Len(s)]) THEN RStrip(SubSeq(s, 1, Len(s) - 1))
    ELSE s

\* str.strip()
Strip(s) == RStrip(LStrip(s))

-----------------------------------------------------------------------------
(* teleop_gzb.py: configuration *)

JOINT_NAMES == <<"joint1", "joint2", "joint3", "joint4", "joint5", "joint6",
                 "joint7">>

\* key -> (index into q, counted from 0; sign)
KEYMAP ==
    (<<"q">> :> <<0, 1>>) @@ (<<"a">> :> <<0, -1>>) @@
    (<<"w">> :> <<1, 1>>) @@ (<<"s">> :> <<1, -1>>) @@
    (<<"e">> :> <<2, 1>>) @@ (<<"d">> :> <<2, -1>>) @@
    (<<"r">> :> <<3, 1>>) @@ (<<"f">> :> <<3, -1>>) @@
    (<<"t">> :> <<4, 1>>) @@ (<<"g">> :> <<4, -1>>) @@
    (<<"y">> :> <<5, 1>>) @@ (<<"h">> :> <<5, -1>>) @@
    (<<"u">> :> <<6, 1>>) @@ (<<"j">> :> <<6, -1>>)

STOP_KEYS == {<<" ">>, <<"x">>}

\* self.q = [0.0] * len(JOINT_NAMES)
ZeroQ == [i \in 1..Len(JOINT_NAMES) |-> 0]

-----------------------------------------------------------------------------
(* teleop_gzb.py: JointJogNode *)

\* variant: the point published lacks the last joint
publish_target_truncated(qv) == <<SubSeq(qv, 1, Len(qv) - 1)>>

\* publish_target: one trajectory point whose positions are a copy of q
publish_target(qv) == <<qv>>

\* variant: the key is stripped but its case is kept
NormalizeKeyStripOnly(s) == Strip(s)

\* k = key.lower().strip()
NormalizeKey(s) == Strip(Lower(s))

\* variant: the target is set to one step instead of moved by one step
apply_delta_assign(qv, idx, sgn) == [qv EXCEPT ![idx + 1] = sgn]

\* variant: the target saturates two steps away from zero
apply_delta_clamped(qv, idx, sgn) ==
    [qv EXCEPT ![idx + 1] = IF @ + sgn > 2 THEN 2
                            ELSE IF @ + sgn < -2 THEN -2 ELSE @ + sgn]

\* self.q[idx] += sgn * STEP_RAD
apply_delta(qv, idx, sgn) == [qv EXCEPT ![idx + 1] = @ + sgn]

\* variant: a stop zeroes the targets before publishing
stop_branch_zeroing(qv) ==
    [exc |-> "none", q |-> [i \in DOMAIN qv |-> 0],
     pubs |-> <<[i \in DOMAIN qv |-> 0]>>]

\* the `if k in STOP_KEYS:` branch: publish the current target, return
stop_branch(qv) == [exc |-> "none", q |-> qv, pubs |-> publish_target(qv)]

\* handle_key(key): result is the exception raised (or "none"), the new q and
\* the points published by this call
handle_key(qv, key) ==
    IF ~Truthy(key) THEN [exc |-> "none", q |-> qv, pubs |-> <<>>]
    ELSE IF key.t # "str"
    THEN [exc |-> "AttributeError", q |-> qv, pubs |-> <<>>]
    ELSE LET k == NormalizeKey(key.s) IN
         IF k \in STOP_KEYS THEN stop_branch(qv)
         ELSE IF k \notin DOMAIN KEYMAP
         THEN [exc |-> "none", q |-> qv, pubs |-> <<>>]
         ELSE LET idx == KEYMAP[k][1]
                  sgn == KEYMAP[k][2]
                  nq  == apply_delta(qv, idx, sgn)
              IN [exc |-> "none", q |-> nq, pubs |-> publish_target(nq)]

-----------------------------------------------------------------------------
(* Inbound PubSub messages *)

\* A str payload is held as the document it spells: "empty" is "", "invalid"
\* is text that is not JSON, the others are JSON values.
TextV(doc) == [t |-> "text", doc |-> doc]
DictV(c, k) == [t |-> "dict", cmd |-> c, key |-> k]

JObject(c, k) == [j |-> "object", cmd |-> c, key |-> k]

\* json.loads(payload_str)
json_loads(p) ==
    IF p.t # "text" THEN [exc |-> "TypeError", value |-> NoneV]
    ELSE CASE p.doc.j \in {"empty", "invalid"} ->
                  [exc |-> "JSONDecodeError", value |-> NoneV]
           [] p.doc.j = "null"   -> [exc |-> "none", value |-> NoneV]
           [] p.doc.j = "number" -> [exc |-> "none", value |-> NumV(1)]
           [] p.doc.j = "string" -> [exc |-> "none", value |-> StrV("forward")]
           [] p.doc.j = "array"  -> [exc |-> "none", value |-> ListV(1)]
           [] p.doc.j = "object" ->
                  [exc |-> "none", value |-> DictV(p.doc.cmd, p.doc.key)]

\* data.get(field): only a dict has .get; a missing field and null give None
data_get(data, field) ==
    IF data.t # "dict" THEN [exc |-> "AttributeError", value |-> NoneV]
    ELSE [exc |-> "none",
          value |-> IF field = "cmd" THEN data.cmd ELSE data.key]

ALLOWED == {"forward", "backward", "left", "right"}

CmdVals ==
    {NoneV, NumV(1), ListV(1)} \cup
    {StrV(w) : w \in ALLOWED \cup {"stop", "Forward", "forward ", "ping", ""}}

JogChars == {k[1] : k \in DOMAIN KEYMAP}
SingleKeys == {<<c>> : c \in JogChars \cup {"x", " ", "z", "\t", "Q", "X"}}
PadCores == {<<"q">>, <<"x">>, <<"Q">>, <<" ">>}
PaddedKeys ==
    {<<" ">> \o k : k \in PadCores} \cup {k \o <<" ">> : k \in PadCores} \cup
    {<<" ">> \o k \o <<"\t">> : k \in PadCores}
DoubleKeys == {<<"q", "q">>, <<"q", "a">>, <<"x", "x">>}
KeyStrings == {<<>>} \cup SingleKeys \cup PaddedKeys \cup DoubleKeys

KeyVals ==
    {NoneV, NumV(0), NumV(5), BoolV(TRUE), ListV(1)} \cup
    {StrV(k) : k \in KeyStrings}

\* documents that are not a JSON object
Malformed ==
    {[j |-> d] : d \in {"empty", "invalid", "null", "number", "string", "array"}}

\* values of pubsub_message.get("message") that are not a str
NonText == {NoneV, NumV(0), NumV(5)}

MessagesOf(docs) == {[message |-> p] : p \in NonText \cup {TextV(d) : d \in docs}}

\* messages delivered to teleop_bak.py: every cmd, with and without a key
BakMessages ==
    MessagesOf(Malformed \cup
               {JObject(c, k) : c \in CmdVals, k \in {NoneV, StrV(<<"q">>)}})

\* messages delivered to teleop_gzb.py: every key, some also with a cmd
GzbMessages ==
    MessagesOf(Malformed \cup {JObject(NoneV, k) : k \in KeyVals} \cup
               {JObject(StrV("forward"), k) :
                    k \in {NoneV, StrV(<<"q">>), StrV(<<"x">>)}})

-----------------------------------------------------------------------------
(* teleop_gzb.py: handle_teleop_message *)

GzbResult(exc, qv, pubs) == [exc |-> exc, q |-> qv, pubs |-> pubs]

\* variant: a cmd that is one of the four words takes precedence over the key
gzb_try_body_cmd_first(m, node, qv) ==
    LET payload_str == m.message IN
    IF ~Truthy(payload_str) THEN GzbResult("none", qv, <<>>)
    ELSE LET data == json_loads(payload_str) IN
         IF data.exc # "none" THEN GzbResult(data.exc, qv, <<>>)
         ELSE LET key == data_get(data.value, "key")
                  cmd == data_get(data.value, "cmd")
              IN IF key.exc # "none" THEN GzbResult(key.exc, qv, <<>>)
                 ELSE IF cmd.value.t = "str" /\ cmd.value.s \in ALLOWED
                 THEN GzbResult("none", qv, <<>>)
                 ELSE IF node = "None" THEN GzbResult("none", qv, <<>>)
                 ELSE handle_key(qv, key.value)

\* variant: no test of ros_node, so the call on None raises AttributeError
gzb_try_body_unguarded(m, node, qv) ==
    LET payload_str == m.message IN
    IF ~Truthy(payload_str) THEN GzbResult("none", qv, <<>>)
    ELSE LET data == json_loads(payload_str) IN
         IF data.exc # "none" THEN GzbResult(data.exc, qv, <<>>)
         ELSE LET key == data_get(data.value, "key") IN
              IF key.exc # "none" THEN GzbResult(key.exc, qv, <<>>)
              ELSE IF node = "None" THEN GzbResult("AttributeError", qv, <<>>)
              ELSE handle_key(qv, key.value)

\* the body of the try block
gzb_try_body(m, node, qv) ==
    LET payload_str == m.message IN
    IF ~Truthy(payload_str) THEN GzbResult("none", qv, <<>>)
    ELSE LET data == json_loads(payload_str) IN
         IF data.exc # "none" THEN GzbResult(data.exc, qv, <<>>)
         ELSE LET key == data_get(data.value, "key") IN
              IF key.exc # "none" THEN GzbResult(key.exc, qv, <<>>)
              ELSE IF node = "None" THEN GzbResult("none", qv, <<>>)
              ELSE handle_key(qv, key.value)

\* how a call of the handler ends for its caller, the transport
Outcome(exc) ==
    IF exc = "none" THEN "returned"
    ELSE IF ExceptCatches(exc) THEN "caught" ELSE "raised"

-----------------------------------------------------------------------------
(* teleop_bak.py: the serial link *)

USB_PORTS == {"/dev/ttyUSB0", "/dev/ttyUSB1"}
ACM_PORTS == {"/dev/ttyACM0"}
Ports == USB_PORTS \cup ACM_PORTS

\* duplicate-free listings of some of the members of a set, in any order
RECURSIVE Listings(_)
Listings(S) ==
    {<<>>} \cup UNION {{<<p>> \o l : l \in Listings(S \ {p})} : p \in S}

\* glob.glob("/dev/ttyUSB*") + glob.glob("/dev/ttyACM*")
CandidateLists == {u \o a : u \in Listings(USB_PORTS), a \in Listings(ACM_PORTS)}

\* what the device behind a candidate does to one probe
ProbeIO == {"open_raises", "write_raises", "read_raises", "silent", "reply"}

Line(port, text, by) == [port |-> port, line |-> text, by |-> by]

\* variant: a candidate that sends no reply is rejected
probe_needs_reply(port, io) ==
    CASE io = "open_raises" ->
             [ok |-> FALSE, opened |-> FALSE, closed |-> FALSE, writes |-> <<>>]
      [] io = "write_raises" ->
             [ok |-> FALSE, opened |-> TRUE, closed |-> FALSE, writes |-> <<>>]
      [] io \in {"read_raises", "silent"} ->
             [ok |-> FALSE, opened |-> TRUE, closed |-> io = "silent",
              writes |-> <<Line(port, "ping\n", "probe")>>]
      [] io = "reply" ->
             [ok |-> TRUE, opened |-> TRUE, closed |-> TRUE,
              writes |-> <<Line(port, "ping\n", "probe")>>]

\* one iteration of the for loop: try ... except for one port
\*   ok: the iteration returns the port; opened: serial.Serial returned;
\*   closed: s.close() ran; writes: what reached the device
probe(port, io) ==
    CASE io = "open_raises" ->
             [ok |-> FALSE, opened |-> FALSE, closed |-> FALSE, writes |-> <<>>]
      [] io = "write_raises" ->
             [ok |-> FALSE, opened |-> TRUE, closed |-> FALSE, writes |-> <<>>]
      [] io = "read_raises" ->
             [ok |-> FALSE, opened |-> TRUE, closed |-> FALSE,
              writes |-> <<Line(port, "ping\n", "probe")>>]
      [] io \in {"silent", "reply"} ->
             [ok |-> TRUE, opened |-> TRUE, closed |-> TRUE,
              writes |-> <<Line(port, "ping\n", "probe")>>]

\* find_arduino_port, from candidate number i on
RECURSIVE find_from(_, _, _)
find_from(cands, io, i) ==
    IF i > Len(cands)
    THEN [port |-> NoneV, probed |-> <<>>, writes |-> <<>>, unclosed |-> {}]
    ELSE LET p == cands[i]
             r == probe(p, io[p])
         IN IF r.ok
            THEN [port |-> [port |-> p], probed |-> <<p>>, writes |-> r.writes,
                  unclosed |-> {}]
            ELSE LET rest == find_from(cands, io, i + 1)
                 IN [port |-> rest.port,
                     probed |-> <<p>> \o rest.probed,
                     writes |-> r.writes \o rest.writes,
                     unclosed |-> (IF r.opened /\ ~r.closed THEN {p} ELSE {})
                                  \cup rest.unclosed]

find_arduino_port(cands, io) == find_from(cands, io, 1)

\* when an unreferenced Serial object is finalised (and so closed): at once,
\* by reference counting, or at some later collection
GcModes == {"refcount", "deferred"}

\* the probe of candidate number i opened a handle and never closed it
ProbeLeavesOpen(cands, io, i) ==
    LET r == probe(cands[i], io[cands[i]]) IN r.opened /\ ~r.closed

\* the handles of earlier failed probes that are still open when candidate
\* number i is opened: the except clause closes nothing, so at best (reference
\* counting) the local s still holds the latest one until it is rebound, and
\* otherwise all of them are still open
HeldAt(cands, io, i, gc) ==
    LET U == {j \in 1..(i - 1) : ProbeLeavesOpen(cands, io, j)} IN
    IF gc = "refcount"
    THEN {cands[j] : j \in {j \in U : \A k \in U : k <= j}}
    ELSE {cands[j] : j \in U}

\* the handles of failed probes still open after find_arduino_port returned:
\* its locals are gone, so only a deferred collection leaves any
LeftOpen(unclosed, gc) == IF gc = "refcount" THEN {} ELSE unclosed

\* variant: with no port found, a fixed default port is opened
init_arduino_default_port(cands, io, reopen) ==
    LET f == find_arduino_port(cands, io) IN
    IF f.port = NoneV
    THEN [ser |-> [port |-> "/dev/ttyUSB0"], found |-> f,
          opened |-> {"/dev/ttyUSB0"}]
    ELSE IF reopen
    THEN [ser |-> f.port, found |-> f, opened |-> {f.port.port}]
    ELSE [ser |-> NoneV, found |-> f, opened |-> {}]

\* init_arduino(): reopen tells whether the second serial.Serial(port, ...)
\* returns (TRUE) or raises (FALSE)
init_arduino(cands, io, reopen) ==
    LET f == find_arduino_port(cands, io) IN
    IF f.port = NoneV
    THEN [ser |-> NoneV, found |-> f, opened |-> {}]
    ELSE IF reopen
    THEN [ser |-> f.port, found |-> f, opened |-> {f.port.port}]
    ELSE [ser |-> NoneV, found |-> f, opened |-> {}]

\* what the device does to one send
SendIO == {"write_raises", "read_raises", "no_reply", "reply"}

\* variant: the send has no except clause of its own
SendExceptCatchesNothing(exc) == FALSE

\* `except Exception as e:` of send_cmd_to_arduino
SendExceptCatches(exc) == exc \in ExceptionClasses

\* variant: an unconnected link makes the send run discovery and retry once
send_cmd_reconnecting(cmd, ser, sio) ==
    IF ser = NoneV
    THEN [exc |-> "none", writes |-> <<>>, ser |-> ser, connects |-> 1]
    ELSE [exc |-> "none",
          writes |-> IF sio = "write_raises" THEN <<>>
                     ELSE <<Line(ser.port, cmd \o "\n", "send")>>,
          ser |-> ser, connects |-> 0]

\* variant: a failed write or read drops the session
send_cmd_dropping_link(cmd, ser, sio) ==
    IF ser = NoneV
    THEN [exc |-> "none", writes |-> <<>>, ser |-> ser, connects |-> 0]
    ELSE [exc |-> "none",
          writes |-> IF sio = "write_raises" THEN <<>>
                     ELSE <<Line(ser.port, cmd \o "\n", "send")>>,
          ser |-> IF sio \in {"write_raises", "read_raises"} THEN NoneV ELSE ser,
          connects |-> 0]

\* variant: the command word is written without its line terminator
send_cmd_no_newline(cmd, ser, sio) ==
    IF ser = NoneV
    THEN [exc |-> "none", writes |-> <<>>, ser |-> ser, connects |-> 0]
    ELSE [exc |-> "none",
          writes |-> IF sio = "write_raises" THEN <<>>
                     ELSE <<Line(ser.port, cmd, "send")>>,
          ser |-> ser, connects |-> 0]

\* variant: a write that went through is repeated once
send_cmd_resending(cmd, ser, sio) ==
    IF ser = NoneV
    THEN [exc |-> "none", writes |-> <<>>, ser |-> ser, connects |-> 0]
    ELSE [exc |-> "none",
          writes |-> IF sio = "write_raises" THEN <<>>
                     ELSE <<Line(ser.port, cmd \o "\n", "send"),
                            Line(ser.port, cmd \o "\n", "send")>>,
          ser |-> ser, connects |-> 0]

\* send_cmd_to_arduino(cmd): the exception that leaves the function (or
\* "none"), the lines written, the global handle afterwards, and the number
\* of calls of init_arduino it made
send_cmd_to_arduino(cmd, ser, sio) ==
    IF ser = NoneV
    THEN [exc |-> "none", writes |-> <<>>, ser |-> ser, connects |-> 0]
    ELSE LET raised == IF sio \in {"write_raises", "read_raises"}
                       THEN "SerialException" ELSE "none"
             out == IF raised = "none" \/ SendExceptCatches(raised)
                    THEN "none" ELSE raised
         IN [exc |-> out,
             writes |-> IF sio = "write_raises" THEN <<>>
                        ELSE <<Line(ser.port, cmd \o "\n", "send")>>,
             ser |-> ser, connects |-> 0]

-----------------------------------------------------------------------------
(* teleop_bak.py: handle_teleop_message *)

\* variant: any string is forwarded
InAllowedAnyStr(cmd) == cmd.t = "str"

\* cmd in ("forward", "backward", "left", "right")
InAllowed(cmd) == cmd.t = "str" /\ cmd.s \in ALLOWED

BakResult(exc, writes, ser) ==
    [exc |-> exc, writes |-> writes, ser |-> ser, connects |-> 0]

\* the body of the try block
bak_try_body(m, ser, sio) ==
    LET payload_str == m.message IN
    IF ~Truthy(payload_str) THEN BakResult("none", <<>>, ser)
    ELSE LET data == json_loads(payload_str) IN
         IF data.exc # "none" THEN BakResult(data.exc, <<>>, ser)
         ELSE LET cmd == data_get(data.value, "cmd") IN
              IF cmd.exc # "none" THEN BakResult(cmd.exc, <<>>, ser)
              ELSE IF InAllowed(cmd.value)
              THEN send_cmd_to_arduino(cmd.value.s, ser, sio)
              ELSE BakResult("none", <<>>, ser)

\* the call reaches the device: its result depends on what the device does
UsesDevice(m, ser) ==
    bak_try_body(m, ser, "write_raises") # bak_try_body(m, ser, "no_reply")

-----------------------------------------------------------------------------
(* What a message asks for, read off the message itself *)

IsObject(m) == m.message.t = "text" /\ m.message.doc.j = "object"

\* the cmd and key members of the payload, None when there is none
RawCmd(m) == IF IsObject(m) THEN m.message.doc.cmd ELSE NoneV
RawKey(m) == IF IsObject(m) THEN m.message.doc.key ELSE NoneV

\* s is the character c, in either case, with nothing but white space around
IsPaddedForm(s, c) ==
    \E i \in 1..Len(s) :
        /\ s[i] = c \/ (s[i] \in DOMAIN UpperOf /\ UpperOf[s[i]] = c)
        /\ \A j \in 1..Len(s) : j # i => s[j] \in {" ", "\t", "\n"}

\* the jog-table characters a key value is a padded form of
JogCharsOf(k) ==
    IF k.t # "str" THEN {} ELSE {c \in JogChars : IsPaddedForm(k.s, c)}

\* history: the allow-listed commands a message carries (0 or 1)
MotionsIn(m) ==
    IF RawCmd(m).t = "str" /\ RawCmd(m).s \in {"forward", "backward", "left", "right"}
    THEN 1 ELSE 0

\* history: the jog-table key a message delivers to a constructed node
JogKeyOf(m, node) ==
    IF node = "None" \/ JogCharsOf(RawKey(m)) = {} THEN <<>>
    ELSE <<CHOOSE c \in JogCharsOf(RawKey(m)) : TRUE>>

-----------------------------------------------------------------------------
(* The two processes *)

\* what pubsub.subscribe answers: the list of old messages, or an exception
SubscribeResults == {"ok", "raises"}

\* the old TELEOP messages of the topic when the process subscribes
OldMessages(scr) ==
    IF scr = "teleop_bak"
    THEN {[message |-> TextV(JObject(c, NoneV))] :
              c \in {StrV("forward"), StrV("left"), StrV("jump")}}
    ELSE {[message |-> TextV(JObject(NoneV, k))] :
              k \in {StrV(<<"q">>), StrV(<<"x">>), StrV(<<"z">>)}}

\* the lists pubsub.subscribe can return: up to two old messages
OldMessageLists(scr) ==
    {<<>>} \cup {<<m>> : m \in OldMessages(scr)}
           \cup {<<m, n>> : m \in OldMessages(scr), n \in OldMessages(scr)}

\* variant: the old messages are handed to the callback as well
subscribe_to_teleop_replaying(old, res) ==
    IF res = "raises" THEN [exc |-> "Exception", logged |-> <<>>, dispatched |-> <<>>]
    ELSE [exc |-> "none", logged |-> old, dispatched |-> old]

\* subscribe_to_teleop: old_messages is printed and dropped; an exception of
\* subscribe is printed
subscribe_to_teleop(old, res) ==
    IF res = "raises" THEN [exc |-> "Exception", logged |-> <<>>, dispatched |-> <<>>]
    ELSE [exc |-> "none", logged |-> old, dispatched |-> <<>>]

\* the link after the callback ran on each of msgs in turn
RECURSIVE BakDispatch(_, _, _)
BakDispatch(msgs, ser, sio) ==
    IF msgs = <<>> THEN [ser |-> ser, writes |-> <<>>]
    ELSE LET r == bak_try_body(Head(msgs), ser, sio)
             rest == BakDispatch(Tail(msgs), r.ser, sio)
         IN [ser |-> rest.ser, writes |-> r.writes \o rest.writes]

\* the joints after the callback ran on each of msgs in turn
RECURSIVE GzbDispatch(_, _, _)
GzbDispatch(msgs, node, qv) ==
    IF msgs = <<>> THEN [q |-> qv, pubs |-> <<>>]
    ELSE LET r == gzb_try_body(Head(msgs), node, qv)
             rest == GzbDispatch(Tail(msgs), node, r.q)
         IN [q |-> rest.q, pubs |-> r.pubs \o rest.pubs]

\* history: what the device did to the send of the previous callback
PrevSio == IF last.op = "msg" THEN last.sio ELSE "none"

bakVars == <<arduino_ser, open_handles, wire, connect_calls, n_candidates,
            motion_seen>>
gzbVars == <<ros_node, q, published, keys_seen>>

Init ==
    /\ script \in {"teleop_bak", "teleop_gzb"}
    /\ phase = "boot"
    /\ arduino_ser = NoneV
    /\ open_handles = {}
    /\ wire = <<>>
    /\ connect_calls = 0
    /\ n_candidates = 0
    /\ motion_seen = 0
    /\ ros_node = "None"
    /\ q = <<>>
    /\ published = <<>>
    /\ keys_seen = <<>>
    /\ nmsgs = 0
    /\ last = [op |-> "start"]

\* teleop_bak __main__, step 1: init_arduino()
InitArduino ==
    /\ script = "teleop_bak" /\ phase = "boot"
    /\ \E cands \in CandidateLists, io \in [Ports -> ProbeIO], reopen \in BOOLEAN,
          gc \in GcModes :
         LET r == init_arduino(cands, io, reopen) IN
         /\ arduino_ser' = r.ser
         /\ open_handles' = open_handles \cup LeftOpen(r.found.unclosed, gc)
                                         \cup r.opened
         /\ wire' = wire \o r.found.writes
         /\ n_candidates' = Len(cands)
         /\ last' = [op |-> "init_arduino", cands |-> cands,
                     io |-> [i \in 1..Len(cands) |-> io[cands[i]]],
                     reopen |-> reopen,
                     probed |-> r.found.probed,
                     found |-> r.found.port,
                     held |-> [k \in 1..Len(r.found.probed) |->
                                   HeldAt(cands, io, k, gc)]]
    /\ connect_calls' = connect_calls + 1
    /\ phase' = "inited"
    /\ UNCHANGED <<script, gzbVars, nmsgs, motion_seen>>

\* teleop_gzb __main__: rclpy.init(); ros_node = JointJogNode()
ConstructNode ==
    /\ script = "teleop_gzb" /\ phase = "boot"
    /\ ros_node' = "node"
    /\ q' = ZeroQ
    /\ phase' = "inited"
    /\ last' = [op |-> "JointJogNode"]
    /\ UNCHANGED <<script, bakVars, published, keys_seen, nmsgs>>

\* variant: main() is called without waiting for the start-up step
main_called_at_once(ph) == ph \in {"boot", "inited"}

\* __main__ calls main() when the start-up step before it has returned
main_called(ph) == ph = "inited"

\* main(): meeting.join(), answered by on_meeting_joined, which schedules
\* subscribe_to_teleop
OnMeetingJoined ==
    /\ main_called(phase)
    /\ phase' = "joined"
    /\ last' = [op |-> "on_meeting_joined"]
    /\ UNCHANGED <<script, bakVars, gzbVars, nmsgs>>

\* subscribe_to_teleop: pubsub.subscribe registers the callback and returns
\* the old messages of the topic; when it raises, the callback may or may not
\* have been registered
SubscribeToTeleop ==
    /\ phase = "joined"
    /\ \E old \in OldMessageLists(script), res \in SubscribeResults :
         LET r == subscribe_to_teleop(old, res) IN
         \E sio \in IF script = "teleop_bak" /\ r.dispatched # <<>>
                     THEN SendIO ELSE {"unused"} :
           LET b == BakDispatch(r.dispatched, arduino_ser, sio)
               g == GzbDispatch(r.dispatched, ros_node, q)
           IN /\ phase' \in IF res = "ok" THEN {"subscribed"}
                            ELSE {"subscribed", "unsubscribed"}
              /\ arduino_ser' = IF script = "teleop_bak" THEN b.ser ELSE arduino_ser
              /\ wire' = IF script = "teleop_bak" THEN wire \o b.writes ELSE wire
              /\ q' = IF script = "teleop_gzb" THEN g.q ELSE q
              /\ published' = IF script = "teleop_gzb" THEN published \o g.pubs
                              ELSE published
              /\ last' = [op |-> "subscribe_to_teleop", old |-> old, res |-> res,
                          logged |-> r.logged,
                          ser |-> arduino_ser, nwire |-> Len(wire),
                          ncalls |-> connect_calls, handles |-> open_handles,
                          q |-> q, npub |-> Len(published)]
    /\ UNCHANGED <<script, open_handles, connect_calls, n_candidates,
                   motion_seen, ros_node, keys_seen, nmsgs>>

\* teleop_bak: the transport calls handle_teleop_message(pubsub_message)
BakHandleTeleopMessage ==
    /\ script = "teleop_bak" /\ phase = "subscribed" /\ nmsgs < MaxBakMsgs
    /\ \E m \in BakMessages :
       \E sio \in IF UsesDevice(m, arduino_ser) THEN SendIO ELSE {"unused"} :
         LET r == bak_try_body(m, arduino_ser, sio) IN
         /\ arduino_ser' = r.ser
         /\ wire' = wire \o r.writes
         /\ connect_calls' = connect_calls + r.connects
         /\ motion_seen' = motion_seen + MotionsIn(m)
         /\ last' = [op |-> "msg", msg |-> m,
                     sio |-> sio, prev |-> PrevSio,
                     outcome |-> Outcome(r.exc),
                     ser |-> arduino_ser, nwire |-> Len(wire),
                     ncalls |-> connect_calls, handles |-> open_handles,
                     q |-> q, npub |-> Len(published)]
    /\ nmsgs' = nmsgs + 1
    /\ UNCHANGED <<script, phase, open_handles, n_candidates, gzbVars>>

\* teleop_gzb: one call of handle_teleop_message(pubsub_message); dropped is
\* the number of calls so far that found ros_node None
GzbDeliver(dropped) ==
    /\ \E m \in GzbMessages :
         LET r == gzb_try_body(m, ros_node, q) IN
         /\ q' = r.q
         /\ published' = published \o r.pubs
         /\ keys_seen' = keys_seen \o JogKeyOf(m, ros_node)
         /\ last' = [op |-> "msg", msg |-> m, sio |-> "unused",
                     prev |-> PrevSio,
                     outcome |-> Outcome(r.exc),
                     ser |-> arduino_ser, nwire |-> Len(wire),
                     ncalls |-> connect_calls, handles |-> open_handles,
                     q |-> q, npub |-> Len(published),
                     node |-> ros_node,
                     dropped |-> IF ros_node = "None" THEN dropped + 1
                                 ELSE dropped]
    /\ nmsgs' = nmsgs + 1
    /\ UNCHANGED <<script, phase, bakVars, ros_node>>

\* teleop_gzb: the transport calls handle_teleop_message(pubsub_message)
GzbHandleTeleopMessage ==
    /\ script = "teleop_gzb" /\ phase = "subscribed" /\ nmsgs < MaxGzbMsgs
    /\ GzbDeliver(0)

Next ==
    \/ InitArduino
    \/ ConstructNode
    \/ OnMeetingJoined
    \/ SubscribeToTeleop
    \/ BakHandleTeleopMessage
    \/ GzbHandleTeleopMessage

Spec == Init /\ [][Next]_vars

-----------------------------------------------------------------------------
(* teleop_gzb.py loaded as a module: __main__ has not run, ros_node is still
   the None of line 54, and the functions of the module are called from
   outside *)

ImportedInit ==
    /\ script = "teleop_gzb"
    /\ phase = "imported"
    /\ arduino_ser = NoneV
    /\ open_handles = {}
    /\ wire = <<>>
    /\ connect_calls = 0
    /\ n_candidates = 0
    /\ motion_seen = 0
    /\ ros_node = "None"
    /\ q = <<>>
    /\ published = <<>>
    /\ keys_seen = <<>>
    /\ nmsgs = 0
    /\ last = [op |-> "import", dropped |-> 0]

\* handle_teleop_message(pubsub_message) is called, node or no node
CallHandleTeleopMessage ==
    /\ phase = "imported" /\ nmsgs < MaxGzbMsgs
    /\ GzbDeliver(last.dropped)

\* ros_node = JointJogNode(): the node becomes available
AssignRosNode ==
    /\ phase = "imported" /\ ros_node = "None"
    /\ ros_node' = "node"
    /\ q' = ZeroQ
    /\ last' = [op |-> "JointJogNode", dropped |-> last.dropped]
    /\ UNCHANGED <<script, phase, bakVars, published, keys_seen, nmsgs>>

ImportedNext ==
    \/ CallHandleTeleopMessage
    \/ AssignRosNode

SpecImported == ImportedInit /\ [][ImportedNext]_vars

-----------------------------------------------------------------------------
(* Properties *)

\* the callback that ran last left the link, the wire, the joints and the
\* publisher as it found them
NoEffect ==
    /\ arduino_ser = last.ser
    /\ Len(wire) = last.nwire
    /\ q = last.q
    /\ Len(published) = last.npub

\* what the callback that ran last wrote to the serial link
NewLines == SubSeq(wire, last.nwire + 1, Len(wire))

FourWords == {"forward", "backward", "left", "right"}
IsMotion(c) == c.t = "str" /\ c.s \in FourWords

\* the key value is a stop key: "x" in either case and any padding, or " "
IsStopKey(k) == k.t = "str" /\ (k.s \in STOP_KEYS \/ IsPaddedForm(k.s, "x"))

\* the key value is a stop key or a jog key, in whatever case and padding
IsKeyCommand(k) == IsStopKey(k) \/ JogCharsOf(k) # {}

\* the message is no command for the script that receives it
Unrecognised(m) ==
    IF script = "teleop_bak" THEN ~IsMotion(RawCmd(m))
    ELSE ~IsKeyCommand(RawKey(m))

\* C1: every call of handle_teleop_message returns to the transport (no
\* exception leaves it), whatever the message: no 'message' field, an empty
\* or non-JSON payload, JSON that is no object, a cmd or key that is no
\* string; and a message that is no command writes nothing to the serial
\* link, changes no joint and publishes nothing.
C1_HandlerTotal ==
    last.op = "msg" =>
        /\ last.outcome \in {"returned", "caught"}
        /\ Unrecognised(last.msg) => NoEffect

C1_Witness ==
    /\ script = "teleop_gzb" /\ last.op = "msg"
    /\ RawKey(last.msg) = NumV(5)
    /\ last.outcome = "caught"
    /\ last.q # ZeroQ

\* C2: a callback writes to the serial link only lines that are one of the
\* four words (the one other line on the wire, the probe's ping, is written by
\* discovery before any callback runs); a cmd that is not one of the four (or is missing) writes
\* nothing; a cmd that is one of the four is sent as exactly that word: at most
\* one line, the word itself, and exactly one on a connected link whose write
\* succeeds.
C2_AllowList ==
    /\ \A i \in DOMAIN wire :
           \/ wire[i].line \in {"forward\n", "backward\n", "left\n", "right\n"}
           \/ /\ wire[i].line = "ping\n" /\ wire[i].by = "probe"
              /\ \A j \in 1..i : wire[j].line = "ping\n"
    /\ (script = "teleop_bak" /\ last.op = "msg") =>
        LET c == RawCmd(last.msg) IN
        /\ \A i \in DOMAIN NewLines :
               NewLines[i].line \in {"forward\n", "backward\n", "left\n", "right\n"}
        /\ ~IsMotion(c) => NewLines = <<>>
        /\ IsMotion(c) =>
               /\ Len(NewLines) <= 1
               /\ \A i \in DOMAIN NewLines : NewLines[i].line = c.s \o "\n"
               /\ (last.ser # NoneV /\ last.sio # "write_raises") =>
                      /\ Len(NewLines) = 1
                      /\ NewLines[1].port = last.ser.port

C2_Witness ==
    /\ script = "teleop_bak" /\ last.op = "msg"
    /\ RawCmd(last.msg) = StrV("left")
    /\ Len(wire) = last.nwire + 1
    /\ wire[Len(wire)].line = "left\n"
    /\ wire[1].line = "ping\n"

\* a motion command arrived while the link was unconnected
C3_Case ==
    /\ script = "teleop_bak" /\ last.op = "msg"
    /\ IsMotion(RawCmd(last.msg))
    /\ last.ser = NoneV

\* C3 as claimed: a motion command that finds the link unconnected makes the
\* router run connect() exactly once.
C3_Original == C3_Case => connect_calls = last.ncalls + 1

\* C3, amended: a motion command that finds the link unconnected is dropped at
\* once: no connect() is run, nothing is written, the link stays unconnected
\* and the callback returns.
C3_DropsWithoutConnect ==
    C3_Case =>
        /\ connect_calls = last.ncalls
        /\ NewLines = <<>>
        /\ arduino_ser = NoneV
        /\ last.outcome = "returned"

C3_Witness == C3_Case /\ RawCmd(last.msg) = StrV("forward") /\ nmsgs = 2

\* a motion command was sent on a connected link and the write raised
C4_Case ==
    /\ script = "teleop_bak" /\ last.op = "msg"
    /\ IsMotion(RawCmd(last.msg))
    /\ last.ser # NoneV
    /\ last.sio = "write_raises"

\* C4 as claimed: right after a send whose write failed the link is
\* unconnected.
C4_Original == C4_Case => arduino_ser = NoneV

\* C4, amended: a send whose write fails leaves the link as it was: the
\* session stays set on the same port and no connect() is run; the send that
\* follows a failed one is attempted on that session again and, when its
\* write succeeds, puts its line on the wire.
C4_FailedWriteKeepsSession ==
    /\ C4_Case =>
           /\ arduino_ser = last.ser
           /\ connect_calls = last.ncalls
           /\ NewLines = <<>>
    /\ (script = "teleop_bak" /\ last.op = "msg" /\ last.prev = "write_raises"
        /\ IsMotion(RawCmd(last.msg)) /\ last.sio # "write_raises") =>
           /\ last.ser # NoneV
           /\ Len(NewLines) = 1
           /\ NewLines[1].port = last.ser.port

C4_Witness ==
    /\ script = "teleop_bak" /\ last.op = "msg"
    /\ last.prev = "write_raises"
    /\ IsMotion(RawCmd(last.msg)) /\ last.sio = "no_reply"
    /\ Len(NewLines) = 1

\* the callback that ran last was delivered to teleop_gzb.py
GzbMsg == script = "teleop_gzb" /\ last.op = "msg"

\* C5 as claimed: a key message whose value is a stop character, " " or "x",
\* publishes the current joint targets exactly once (and changes none).
C5_StopKeysPublishOnce ==
    (GzbMsg /\ RawKey(last.msg) \in {StrV(<<" ">>), StrV(<<"x">>)}) =>
        /\ Len(published) = last.npub + 1
        /\ published[Len(published)] = last.q
        /\ q = last.q

\* C6 as claimed: only a key value that is exactly one character of the key
\* table jogs; any other key value that is no stop character changes no joint
\* and publishes nothing.
C6_Original ==
    GzbMsg =>
        LET k == RawKey(last.msg) IN
        /\ q # last.q => (k.t = "str" /\ k.s \in DOMAIN KEYMAP)
        /\ (k.t # "str" \/ (k.s \notin DOMAIN KEYMAP /\ k.s \notin STOP_KEYS)) =>
               (q = last.q /\ Len(published) = last.npub)

\* C6, amended: the key table has 14 entries, and a key value jogs exactly
\* when, lower-cased and stripped of surrounding white space, it is one
\* character of the table (so "Q" and " q" jog as "q" does); a key value that
\* in this sense is no table character, and is no stop character, changes no
\* joint and publishes nothing.
C6_JogIffNormalisedInTable ==
    /\ Cardinality(DOMAIN KEYMAP) = 14
    /\ GzbMsg =>
           LET k == RawKey(last.msg) IN
           /\ (q # last.q) <=> (JogCharsOf(k) # {})
           /\ JogCharsOf(k) # {} => Len(published) = last.npub + 1
           /\ ~IsKeyCommand(k) => (q = last.q /\ Len(published) = last.npub)

C6_Witness ==
    /\ GzbMsg
    /\ RawKey(last.msg) = StrV(<<" ", "Q", "\t">>)
    /\ q # last.q

\* C7: a key of the jog table moves the joint the table names for it by one
\* step in the direction the table gives, whatever the joint state, and leaves
\* every other joint where it was.
C7_OneJointOneStep ==
    (GzbMsg /\ RawKey(last.msg).t = "str"
            /\ RawKey(last.msg).s \in DOMAIN KEYMAP) =>
        LET idx == KEYMAP[RawKey(last.msg).s][1]
            sgn == KEYMAP[RawKey(last.msg).s][2]
        IN /\ sgn \in {-1, 1}
           /\ DOMAIN q = DOMAIN last.q
           /\ q[idx + 1] = last.q[idx + 1] + sgn
           /\ \A j \in DOMAIN q : j # idx + 1 => q[j] = last.q[j]

C7_Witness ==
    /\ GzbMsg
    /\ RawKey(last.msg) = StrV(<<"j">>)
    /\ last.q[7] = -1 /\ last.q[1] = 1
    /\ q[7] = -2 /\ q[1] = 1

\* C8: a Stop changes no joint position: the vector after it equals the vector
\* before it, and what it publishes is that vector, not zeroes.
C8_StopHolds ==
    (GzbMsg /\ IsStopKey(RawKey(last.msg))) =>
        /\ q = last.q
        /\ \A i \in (last.npub + 1)..Len(published) : published[i] = last.q

C8_Witness ==
    /\ GzbMsg
    /\ RawKey(last.msg) = StrV(<<"x">>)
    /\ last.q # ZeroQ
    /\ Len(published) = last.npub + 1
    /\ q = last.q

\* how often a table key was delivered
Count(c) == Cardinality({i \in DOMAIN keys_seen : keys_seen[i] = c})

\* the `+` key and the `-` key of joint j (counted from 1)
PlusKey(j) == CHOOSE c \in JogChars : KEYMAP[<<c>>] = <<j - 1, 1>>
MinusKey(j) == CHOOSE c \in JogChars : KEYMAP[<<c>>] = <<j - 1, -1>>

\* C9: from the all-zero state, after any sequence of jog keys every joint
\* stands at (its `+` keys minus its `-` keys) steps, at any magnitude; after
\* q, q, a joint 0 stands at one step and the others at 0.
C9_NetSteps ==
    (script = "teleop_gzb" /\ ros_node = "node") =>
        /\ \A j \in 1..Len(JOINT_NAMES) :
               q[j] = Count(PlusKey(j)) - Count(MinusKey(j))
        /\ keys_seen = <<"q", "q", "a">> => q = <<1, 0, 0, 0, 0, 0, 0>>

C9_Witness == keys_seen = <<"q", "q", "a">> /\ q[1] = 1

\* the candidates of the last init_arduino whose probe completed
ProbedOk ==
    {i \in DOMAIN last.cands : last.io[i] \in {"silent", "reply"}}

\* C10 as claimed: connect succeeds if and only if at least one candidate
\* probes successfully.
C10_Original ==
    last.op = "init_arduino" => (arduino_ser # NoneV <=> ProbedOk # {})

\* C10, amended: connect() probes the candidates in enumeration order and
\* stops at the first that probes successfully; it succeeds if and only if
\* there is one and the second open of that port, made after the probe closed
\* it, does not raise; on success the session is on that candidate; if none
\* probes successfully, or the second open raises, the link stays unconnected
\* and no further candidate is tried.
C10_FirstProbedThenReopened ==
    last.op = "init_arduino" =>
        IF ProbedOk = {}
        THEN arduino_ser = NoneV /\ last.probed = last.cands
        ELSE LET f == CHOOSE i \in ProbedOk : \A k \in ProbedOk : i <= k IN
             /\ last.probed = SubSeq(last.cands, 1, f)
             /\ arduino_ser = IF last.reopen THEN [port |-> last.cands[f]]
                              ELSE NoneV
             /\ \A i \in DOMAIN wire :
                    \E k \in 1..f : wire[i].port = last.cands[k]

C10_Witness ==
    /\ last.op = "init_arduino"
    /\ Len(last.cands) = 3
    /\ last.io = <<"write_raises", "silent", "reply">>
    /\ arduino_ser = [port |-> last.cands[2]]
    /\ Len(wire) = 1

\* the callback that ran last was delivered to teleop_bak.py
BakMsg == script = "teleop_bak" /\ last.op = "msg"

\* C11: when discovery lists no candidate, connect leaves the link
\* unconnected, having opened and written nothing; every send after that
\* returns without raising and writes nothing to any serial device.
C11_NoCandidates ==
    (script = "teleop_bak" /\ phase # "boot" /\ n_candidates = 0) =>
        /\ arduino_ser = NoneV
        /\ wire = <<>>
        /\ open_handles = {}
        /\ last.op = "init_arduino" => last.probed = <<>>
        /\ last.op = "msg" => last.outcome \in {"returned", "caught"}
        /\ (last.op = "msg" /\ IsMotion(RawCmd(last.msg))) =>
               last.outcome = "returned"

C11_Witness ==
    /\ BakMsg /\ n_candidates = 0
    /\ IsMotion(RawCmd(last.msg))
    /\ motion_seen = 2
    /\ wire = <<>>

\* the line each command word is sent as
WireLineOf ==
    ("forward" :> "forward\n") @@ ("backward" :> "backward\n") @@
    ("left" :> "left\n") @@ ("right" :> "right\n")

\* C12: on a connected link whose write succeeds, a motion command puts
\* exactly one line on the wire, on the session's port: the command word
\* followed by one newline, and nothing else.
C12_OneLinePerCommand ==
    (BakMsg /\ IsMotion(RawCmd(last.msg)) /\ last.ser # NoneV
            /\ last.sio \in {"no_reply", "reply", "read_raises"}) =>
        /\ Len(wire) = last.nwire + 1
        /\ wire[Len(wire)].line = WireLineOf[RawCmd(last.msg).s]
        /\ wire[Len(wire)].port = last.ser.port

C12_Witness ==
    /\ BakMsg
    /\ RawCmd(last.msg) = StrV("forward")
    /\ last.ser # NoneV /\ last.sio = "reply"
    /\ wire[Len(wire)].line = "forward\n"
    /\ Len(wire) = last.nwire + 1

\* C13: an I/O failure while a command is written to, or its reply read
\* from, the serial device is absorbed by the send itself: the callback
\* returns normally, and the callback after a failed one is handled like any
\* other (it ends without raising, and on a device that accepts the write its
\* line goes out).
C13_LinkErrorsAbsorbed ==
    /\ (BakMsg /\ last.sio \in {"write_raises", "read_raises"}) =>
           last.outcome = "returned"
    /\ (BakMsg /\ last.prev \in {"write_raises", "read_raises"}) =>
           /\ last.outcome \in {"returned", "caught"}
           /\ (IsMotion(RawCmd(last.msg)) /\ last.sio \in {"no_reply", "reply"}) =>
                  Len(wire) = last.nwire + 1

C13_Witness ==
    /\ BakMsg
    /\ last.prev = "read_raises"
    /\ last.sio = "write_raises"
    /\ last.outcome = "returned"

\* C14 as claimed: every jog key and every stop key (" " and "x" among them)
\* produces exactly one publish, made within its own callback, of the joint
\* state as it is right after the key was applied; and from the initial state
\* a single "w" publishes joint[1] = one step, all others 0.
C14_OnePublishPerCommand ==
    /\ (GzbMsg /\ IsKeyCommand(RawKey(last.msg))) =>
           /\ Len(published) = last.npub + 1
           /\ published[Len(published)] = q
    /\ (GzbMsg /\ RawKey(last.msg) = StrV(<<"w">>) /\ last.q = ZeroQ) =>
           published[Len(published)] = <<0, 1, 0, 0, 0, 0, 0>>

\* C15 as claimed: when a candidate is probed, no handle opened by the failed
\* probe of an earlier candidate is still open, and none is left open when
\* discovery is over.
C15_FailedProbeClosesHandle ==
    last.op = "init_arduino" =>
        /\ \A k \in DOMAIN last.held : last.held[k] = {}
        /\ \A p \in open_handles : arduino_ser = [port |-> p]

\* the lines on the wire that are commands (all but the probes' pings)
NumSent == Cardinality({i \in DOMAIN wire : wire[i].line # "ping\n"})

\* C16: a dropped motion command is not kept for later: the command lines on
\* the wire never outnumber the allow-listed commands received, a callback
\* writes at most the one command it carries itself (also right after a
\* command was dropped, and nothing when it carries none), and no connect runs
\* after start-up.
C16_NeverQueued ==
    script = "teleop_bak" =>
        /\ NumSent <= motion_seen
        /\ connect_calls <= 1
        /\ BakMsg => Len(NewLines) <= MotionsIn(last.msg)
        /\ (BakMsg /\ last.ser = NoneV) => NewLines = <<>>

C16_Witness ==
    /\ BakMsg
    /\ last.prev = "write_raises"
    /\ motion_seen = 2 /\ NumSent = 1
    /\ Len(NewLines) = 1

\* the message carries one of the four cmd words and a key of the jog table
C17_Case == IsMotion(RawCmd(last.msg)) /\ JogCharsOf(RawKey(last.msg)) # {}

\* C17 as claimed: a message with a cmd that is one of the four words and a
\* key of the jog table is a motion command: it changes no joint and
\* publishes nothing.
C17_Original ==
    (last.op = "msg" /\ C17_Case) =>
        (q = last.q /\ Len(published) = last.npub)

\* C17, amended: each script reads one field only. teleop_bak.py sends a cmd
\* that is one of the four words to the serial link whether or not a key comes
\* with it, and touches no joint; teleop_gzb.py never reads cmd, so the same
\* message is handled by its key: the joint moves one step and one point is
\* published, and nothing is written to a serial link.
C17_EachScriptReadsItsField ==
    /\ (BakMsg /\ C17_Case) =>
           /\ q = last.q /\ Len(published) = last.npub
           /\ (last.ser # NoneV /\ last.sio # "write_raises") =>
                  /\ Len(wire) = last.nwire + 1
                  /\ wire[Len(wire)].line = WireLineOf[RawCmd(last.msg).s]
    /\ (GzbMsg /\ C17_Case) =>
           /\ q # last.q
           /\ Len(published) = last.npub + 1
           /\ published[Len(published)] = q
           /\ wire = <<>>

C17_Witness ==
    /\ GzbMsg
    /\ RawCmd(last.msg) = StrV("forward")
    /\ RawKey(last.msg) = StrV(<<"q">>)
    /\ q[1] = last.q[1] + 1
    /\ Len(published) = last.npub + 1

\* C18: a candidate whose open and ping write went through is taken as the
\* port, whether its read returned reply bytes or nothing: discovery stops at
\* it; and discovery ends without a port only if every candidate raised.
C18_ReplyNotRequired ==
    last.op = "init_arduino" =>
        /\ \A k \in DOMAIN last.probed :
               last.io[k] \in {"silent", "reply"} =>
                   (k = Len(last.probed) /\ last.found = [port |-> last.cands[k]])
        /\ last.found = NoneV =>
               \A k \in DOMAIN last.cands :
                   last.io[k] \in {"open_raises", "write_raises", "read_raises"}

C18_Witness ==
    /\ last.op = "init_arduino"
    /\ Len(last.cands) = 2
    /\ last.io = <<"silent", "reply">>
    /\ last.found = [port |-> last.cands[1]]
    /\ arduino_ser = [port |-> last.cands[1]]

\* C19: a callback, and so the send in it, never runs discovery and never
\* opens a serial device, whether the link is connected, unconnected or the
\* write fails: the count of init_arduino runs, the session and the set of
\* open handles are what they were, and what is written goes to the session
\* that was already open and is no probe.
C19_SendNeverDiscovers ==
    BakMsg =>
        /\ connect_calls = last.ncalls
        /\ arduino_ser = last.ser
        /\ open_handles = last.handles
        /\ \A i \in DOMAIN NewLines :
               /\ NewLines[i].line # "ping\n"
               /\ last.ser # NoneV /\ NewLines[i].port = last.ser.port

C19_Witness ==
    /\ BakMsg
    /\ IsMotion(RawCmd(last.msg))
    /\ last.ser = NoneV /\ n_candidates = 3
    /\ connect_calls = 1 /\ arduino_ser = NoneV

\* C20: from construction on the joint vector has 7 entries, one per joint
\* name, whatever keys arrive, and every published point carries 7 positions,
\* the last of them being the vector as it stands when a command published.
C20_SevenJoints ==
    (script = "teleop_gzb" /\ ros_node = "node") =>
        /\ Len(JOINT_NAMES) = 7
        /\ Len(q) = 7
        /\ \A i \in DOMAIN published : Len(published[i]) = 7
        /\ (last.op = "msg" /\ Len(published) > last.npub) =>
               published[Len(published)] = q

C20_Witness ==
    /\ script = "teleop_gzb"
    /\ Len(published) = 3
    /\ Len(q) = 7 /\ q[7] = -2

\* C21: the old TELEOP messages that subscribe returns are only logged: the
\* subscription leaves the link, the wire, the joints and the publisher as
\* they were and counts as no callback; before the first callback no command
\* line was written and nothing was published; and callbacks run only once
\* the process has subscribed.
C21_OldMessagesOnlyLogged ==
    /\ last.op = "subscribe_to_teleop" =>
           /\ NoEffect
           /\ connect_calls = last.ncalls
           /\ open_handles = last.handles
           /\ motion_seen = 0 /\ keys_seen = <<>>
           /\ last.res = "ok" => last.logged = last.old
    /\ nmsgs = 0 =>
           /\ NumSent = 0
           /\ published = <<>>
           /\ q \in {<<>>, ZeroQ}
    /\ phase # "subscribed" => nmsgs = 0

C21_Witness ==
    /\ script = "teleop_bak" /\ phase = "subscribed"
    /\ last.op = "subscribe_to_teleop"
    /\ Len(last.old) = 2
    /\ IsMotion(RawCmd(last.old[1])) /\ IsMotion(RawCmd(last.old[2]))
    /\ arduino_ser # NoneV

\* C22: in teleop_bak.py discovery and connect have run, once and to their
\* end, before the meeting is joined and the subscription registered: nothing
\* is dispatched before or during init_arduino, every callback finds the one
\* run of init_arduino behind it, and on the wire every probe line comes
\* before every command line.
C22_DiscoveryBeforeJoin ==
    script = "teleop_bak" =>
        /\ phase = "boot" => (connect_calls = 0 /\ nmsgs = 0 /\ wire = <<>>)
        /\ phase # "boot" => connect_calls = 1
        /\ last.op = "init_arduino" =>
               (phase = "inited" /\ nmsgs = 0 /\ NumSent = 0)
        /\ BakMsg => (last.ncalls = 1 /\ connect_calls = 1)
        /\ \A i \in DOMAIN wire : \A j \in DOMAIN wire :
               (i < j /\ wire[j].by = "probe") => wire[i].by = "probe"

C22_Witness ==
    /\ BakMsg
    /\ Len(wire) = 3
    /\ wire[1].by = "probe" /\ wire[2].by = "probe" /\ wire[3].by = "send"
    /\ connect_calls = 1

Abs(n) == IF n < 0 THEN -n ELSE n

\* the steps, in either direction, that the joints are away from zero
RECURSIVE TotalSteps(_)
TotalSteps(qv) == IF qv = <<>> THEN 0 ELSE Abs(Head(qv)) + TotalSteps(Tail(qv))

\* C23: a message that arrives while ros_node is None is dropped: the call
\* leaves the joints and the publisher as they were and, for every payload
\* that is a JSON object (jog and stop keys included), returns without an
\* exception raised in it; as long as there is no node nothing is published;
\* and the dropped keys are not applied when the node is there: it starts at
\* zero with nothing published, and the points published and the steps moved
\* never exceed the calls made since.
C23_DroppedWhileNoNode ==
    /\ (last.op = "msg" /\ last.node = "None") =>
           /\ q = last.q
           /\ Len(published) = last.npub
           /\ last.outcome # "raised"
           /\ IsObject(last.msg) => last.outcome = "returned"
    /\ ros_node = "None" =>
           (q = <<>> /\ published = <<>> /\ keys_seen = <<>>
            /\ last.dropped = nmsgs)
    /\ last.op = "JointJogNode" => (q = ZeroQ /\ published = <<>>)
    /\ ros_node = "node" =>
           /\ Len(published) + last.dropped <= nmsgs
           /\ TotalSteps(q) + last.dropped <= nmsgs

C23_Witness ==
    /\ last.op = "msg" /\ ros_node = "node"
    /\ last.dropped = 2 /\ nmsgs = 3
    /\ RawKey(last.msg) = StrV(<<"q">>)
    /\ q[1] = 1 /\ TotalSteps(q) = 1
    /\ Len(published) = 1

====
